---- MODULE Spec2Model ----
(***************************************************************************)
(* generic_control_toolbox: the goal-driven controller lifecycle           *)
(* (ControllerTemplate, controller_template.hpp) and the force/torque      *)
(* acquisition manager (WrenchManager, wrench_manager.cpp).                *)
(*                                                                         *)
(* Numbers are integers.  A double that is NaN or +-Inf is one of the two   *)
(* sentinels NaN and Inf; every other integer is a finite double.  A        *)
(* ros::Duration is the pair (sec, nsec) and seconds are counted in         *)
(* nanoseconds, so MAX_DT (0.5 s) is 500000000.                            *)
(***************************************************************************)
EXTENDS Integers, Sequences, FiniteSets, TLC

VARIABLES
  \* ---- ControllerTemplate ----
  goal_status,      \* action_server_: status of the current goal
  last_state_,      \* sensor_msgs::JointState last_state_
  has_state_,       \* bool has_state_
  acquired_goal_,   \* bool acquired_goal_
  ev,               \* what the last lifecycle operation did and returned
  everAccepted,     \* history: goalCB has run (a goal was accepted)
  everReset,        \* history: resetInternalState has run
  firstValid,       \* history: first non-empty current state seen by updateControl
  goalHist,         \* history: algRan, controlAlgorithm was invoked for the
                    \* latest goal; owesReset, such a goal stopped being active
                    \* and resetInternalState has not run since
  \* ---- WrenchManager ----
  max_tf_attempts_,           \* int max_tf_attempts_
  manager_index_,             \* end-effector names, one per channel
  sensor_frame_,              \* std::vector<std::string>
  gripping_frame_,            \* std::vector<std::string>
  calibration_matrix_,        \* std::vector<Eigen::MatrixXd>
  sensor_to_gripping_point_,  \* std::vector<KDL::Frame>
  measured_wrench_,           \* std::vector<KDL::Wrench>
  ft_sub_,                    \* subscriptions, by topic
  processed_ft_pub_,          \* publishers, by topic
  wev,                        \* what the last manager operation did and returned
  ingestedFrames,             \* history: frame ids of the samples stored so far
  \* ---- calls in progress ----
  inflight                    \* where each thread stands inside its call, and
                              \* the locals of the call

ctrlVars == <<goal_status, last_state_, has_state_, acquired_goal_, ev,
              everAccepted, everReset, firstValid, goalHist>>

channelVars == <<manager_index_, sensor_frame_, gripping_frame_,
                 calibration_matrix_, sensor_to_gripping_point_,
                 measured_wrench_, ft_sub_, processed_ft_pub_>>

wrenchVars == <<max_tf_attempts_, channelVars, wev, ingestedFrames>>

vars == <<ctrlVars, wrenchVars, inflight>>

(***************************************************************************)
(* Bounds of the model                                                     *)
(***************************************************************************)
MaxPos == 2       \* joint positions of the current state range over 1..MaxPos
MaxForce == 2     \* the first force component of a raw sample ranges over 1..MaxForce
MaxTfAttemptsParam == 1   \* a configured max_tf_attempts ranges over 0..MaxTfAttemptsParam

(***************************************************************************)
(* Doubles, durations, joint states                                        *)
(***************************************************************************)
NaN == 999999991
Inf == 999999992
NanosPerSec == 1000000000
MAX_DT == 500000000

isfinite(x) == x # NaN /\ x # Inf

\* ros::Duration::toSec(): sec + 1e-9 * nsec, counted in nanoseconds
toSec(dt) == dt.sec * NanosPerSec + dt.nsec

JointState(n, p, v) == [name |-> n, position |-> p, velocity |-> v]

\* a default-constructed sensor_msgs::JointState: all arrays empty
EmptyJointState == JointState(<<>>, <<>>, <<>>)

\* the current states the control loop passes in: the invalid (empty) one
\* and one-joint states
CurrentStates ==
  {EmptyJointState} \cup
  {JointState(<<"j1">>, <<p>>, <<v>>) : p \in 1..MaxPos, v \in {0, 3}}

\* elapsed times: below, exactly at, just above and well above MAX_DT
Durations ==
  {[sec |-> 0, nsec |-> 499999999], [sec |-> 0, nsec |-> 500000000],
   [sec |-> 0, nsec |-> 500000001], [sec |-> 1, nsec |-> 0]}

\* what controlAlgorithm may return: arrays of one size, or name left empty
\* (sensor_msgs/JointState: every array has the common size or is empty)
AlgorithmOutputs ==
  {JointState(n, <<p>>, <<v>>) :
     n \in {<<"j1">>, <<>>}, p \in {7, NaN}, v \in {5, Inf}}

\* what controlAlgorithm may do to the goal through action_server_
AlgorithmEffects == {"none", "succeeded", "aborted"}

(***************************************************************************)
(* ControllerTemplate                                                      *)
(***************************************************************************)
\* action_server_->isActive()
isActive == goal_status = "active"

\* resetFlags(): the two flags after the call
resetFlags == [has_state |-> FALSE, acquired_goal |-> FALSE]

\* dt.toSec() > MAX_DT (first, the variant that also fires at MAX_DT)
LostCommunication_ge(dt) == toSec(dt) >= MAX_DT
LostCommunication(dt) == toSec(dt) > MAX_DT

\* the seed of the cache: current with every velocity set to 0.0 (first,
\* the variant that keeps the velocities)
ZeroVelocity_keep(current) == current
ZeroVelocity(current) ==
  [current EXCEPT !.velocity = [i \in 1..Len(current.velocity) |-> 0]]

\* lastState(current) on a lifecycle whose cache is `last` and whose
\* has_state_ is `has`: the state returned and the cache and flag left behind
\* (first, the variant that seeds the cache on every valid state)
lastState_reseed(current, last, has) ==
  IF Len(current.position) = 0
    THEN [ret |-> last, last_state |-> last, has_state |-> has]
    ELSE [ret |-> ZeroVelocity(current), last_state |-> ZeroVelocity(current),
          has_state |-> TRUE]
lastState(current, last, has) ==
  IF Len(current.position) = 0
    THEN [ret |-> last, last_state |-> last, has_state |-> has]
    ELSE IF ~has
      THEN [ret |-> ZeroVelocity(current), last_state |-> ZeroVelocity(current),
            has_state |-> TRUE]
      ELSE [ret |-> last, last_state |-> last, has_state |-> has]

\* the sanity loop of updateControl: some i < ret.name.size() has a
\* non-finite position[i] or velocity[i]
InvalidJointStates(ret) ==
  \E i \in 1..Len(ret.name) :
    ~isfinite(ret.position[i]) \/ ~isfinite(ret.velocity[i])

\* the record of one lifecycle operation
Event(op, current, dt, ret, algInvoked, algRet, lifecycleAborted, resetCalled, parseOk) ==
  [op |-> op, current |-> current, dt |-> dt, ret |-> ret,
   algInvoked |-> algInvoked, algRet |-> algRet,
   lifecycleAborted |-> lifecycleAborted,
   resetControllerCalled |-> resetCalled, parseOk |-> parseOk]

NoDuration == [sec |-> 0, nsec |-> 0]

NoteFirstValid(current) ==
  IF ~firstValid.set /\ Len(current.position) # 0
    THEN [set |-> TRUE, js |-> current]
    ELSE firstValid

\* updateControl(current_state, dt).  When controlAlgorithm is invoked, r is
\* the state it returns and e what it does to the goal through action_server_
updateControl(current_state, dt) ==
  /\ firstValid' = NoteFirstValid(current_state)
  /\ UNCHANGED <<everAccepted, everReset>>
  /\ IF ~isActive \/ ~acquired_goal_
       THEN LET L == lastState(current_state, last_state_, has_state_) IN
            /\ last_state_' = L.last_state
            /\ has_state_' = L.has_state
            /\ UNCHANGED <<goal_status, acquired_goal_, goalHist>>
            /\ ev' = Event("updateControl", current_state, dt, L.ret, FALSE,
                           EmptyJointState, FALSE, FALSE, FALSE)
       ELSE IF LostCommunication(dt)
         THEN LET L == lastState(current_state, last_state_, has_state_) IN
              /\ goal_status' = "aborted"
              /\ last_state_' = L.last_state
              /\ has_state_' = L.has_state
              /\ UNCHANGED acquired_goal_
              /\ goalHist' = [goalHist EXCEPT
                               !.owesReset = goalHist.owesReset \/ goalHist.algRan]
              /\ ev' = Event("updateControl", current_state, dt, L.ret, FALSE,
                             EmptyJointState, TRUE, FALSE, FALSE)
         ELSE \E r \in AlgorithmOutputs, e \in AlgorithmEffects :
              LET status1 == IF e = "none" THEN goal_status ELSE e
                  reset == status1 # "active"
                  has1 == IF reset THEN resetFlags.has_state ELSE has_state_
                  acq1 == IF reset THEN resetFlags.acquired_goal ELSE acquired_goal_
                  L == lastState(current_state, last_state_, has1)
              IN
              /\ goal_status' = status1
              /\ acquired_goal_' = acq1
              /\ goalHist' = [algRan |-> TRUE,
                              owesReset |-> IF reset THEN FALSE
                                                     ELSE goalHist.owesReset]
              /\ IF InvalidJointStates(r)
                   THEN /\ last_state_' = L.last_state
                        /\ has_state_' = L.has_state
                        /\ ev' = Event("updateControl", current_state, dt, L.ret,
                                       TRUE, r, FALSE, reset, FALSE)
                   ELSE /\ last_state_' = last_state_
                        /\ has_state_' = has1
                        /\ ev' = Event("updateControl", current_state, dt, r,
                                       TRUE, r, FALSE, reset, FALSE)

\* resetInternalState(): resetFlags(); resetController();
resetInternalState ==
  /\ has_state_' = resetFlags.has_state
  /\ acquired_goal_' = resetFlags.acquired_goal
  /\ everReset' = TRUE
  /\ goalHist' = [goalHist EXCEPT !.owesReset = FALSE]
  /\ UNCHANGED <<goal_status, last_state_, everAccepted, firstValid>>
  /\ ev' = Event("resetInternalState", EmptyJointState, NoDuration,
                 EmptyJointState, FALSE, EmptyJointState, FALSE, TRUE, FALSE)

\* goalCB(): acceptNewGoal() makes the new goal the active one; parseOk is
\* what the pluggable parseGoal returns.  The action server calls the preempt
\* callback of an active goal before it calls goalCB for the goal that
\* replaces it, and preemptCB ends that goal, so no goal is active when
\* goalCB starts.  (first, the variant that sets acquired_goal_ before
\* parsing)
goalCB_early(parseOk) ==
  /\ ~isActive
  /\ goalHist' = [goalHist EXCEPT !.algRan = FALSE]
  /\ goal_status' = IF parseOk THEN "active" ELSE "aborted"
  /\ acquired_goal_' = TRUE
  /\ everAccepted' = TRUE
  /\ UNCHANGED <<last_state_, has_state_, everReset, firstValid>>
  /\ ev' = Event("goalCB", EmptyJointState, NoDuration, EmptyJointState,
                 FALSE, EmptyJointState, ~parseOk, FALSE, parseOk)
goalCB(parseOk) ==
  /\ ~isActive
  /\ goalHist' = [goalHist EXCEPT !.algRan = FALSE]
  /\ goal_status' = IF parseOk THEN "active" ELSE "aborted"
  /\ acquired_goal_' = IF parseOk THEN TRUE ELSE acquired_goal_
  /\ everAccepted' = TRUE
  /\ UNCHANGED <<last_state_, has_state_, everReset, firstValid>>
  /\ ev' = Event("goalCB", EmptyJointState, NoDuration, EmptyJointState,
                 FALSE, EmptyJointState, ~parseOk, FALSE, parseOk)

\* preemptCB(): the Goal Channel calls it for a cancel of the active goal
\* (first, the variant that does not call resetInternalState)
preemptCB_noReset ==
  /\ isActive
  /\ goal_status' = "preempted"
  /\ UNCHANGED <<has_state_, acquired_goal_, goalHist>>
  /\ UNCHANGED <<last_state_, everAccepted, everReset, firstValid>>
  /\ ev' = Event("preemptCB", EmptyJointState, NoDuration, EmptyJointState,
                 FALSE, EmptyJointState, FALSE, FALSE, FALSE)
preemptCB ==
  /\ isActive
  /\ goal_status' = "preempted"
  /\ has_state_' = resetFlags.has_state
  /\ acquired_goal_' = resetFlags.acquired_goal
  /\ goalHist' = [goalHist EXCEPT !.owesReset = FALSE]
  /\ UNCHANGED <<last_state_, everAccepted, everReset, firstValid>>
  /\ ev' = Event("preemptCB", EmptyJointState, NoDuration, EmptyJointState,
                 FALSE, EmptyJointState, FALSE, TRUE, FALSE)

\* the constructor: resetFlags(); startActionlib();
CtrlInit ==
  /\ goal_status = "none"
  /\ last_state_ = EmptyJointState
  /\ has_state_ = resetFlags.has_state
  /\ acquired_goal_ = resetFlags.acquired_goal
  /\ ev = Event("init", EmptyJointState, NoDuration, EmptyJointState,
                FALSE, EmptyJointState, FALSE, FALSE, FALSE)
  /\ everAccepted = FALSE
  /\ everReset = FALSE
  /\ firstValid = [set |-> FALSE, js |-> EmptyJointState]
  /\ goalHist = [algRan |-> FALSE, owesReset |-> FALSE]

(***************************************************************************)
(* WrenchManager                                                           *)
(***************************************************************************)
EndEffectors == {"left_arm", "right_arm"}
SensorFrames == {"left_sensor", "right_sensor"}
GrippingFrames == {"left_grip"}
SensorTopics == {"ft_left"}
\* frame ids of incoming samples: the sensor frames and one never registered
SampleFrames == SensorFrames \cup {"other_sensor"}

\* the entries of the matrices on the parameter server: the identity; 2 on
\* the diagonal and 1 right above it (not symmetric); all ones
Entry(kind, i, j) ==
  CASE kind = "identity"   -> IF i = j THEN 1 ELSE 0
    [] kind = "bidiagonal" -> IF i = j THEN 2 ELSE IF j = i + 1 THEN 1 ELSE 0
    [] OTHER               -> 1

\* an Eigen::MatrixXd of the given shape
Matrix(r, c, kind) ==
  [rows |-> r, cols |-> c,
   m |-> [i \in 1..r |-> [j \in 1..c |-> Entry(kind, i, j)]]]

\* the calibration matrices held by the parameter server, by parameter name;
\* "missing" is a parameter that is not set
CalibParams ==
  {"left/sensor_calib", "right/sensor_calib", "calib_5x6", "calib_6x5",
   "calib_0x0", "missing"}

ParamServer(param) ==
  CASE param = "left/sensor_calib"  -> [set |-> TRUE, M |-> Matrix(6, 6, "identity")]
    [] param = "right/sensor_calib" -> [set |-> TRUE, M |-> Matrix(6, 6, "bidiagonal")]
    [] param = "calib_5x6"          -> [set |-> TRUE, M |-> Matrix(5, 6, "ones")]
    [] param = "calib_6x5"          -> [set |-> TRUE, M |-> Matrix(6, 5, "ones")]
    [] param = "calib_0x0"          -> [set |-> TRUE, M |-> Matrix(0, 0, "ones")]
    [] OTHER                        -> [set |-> FALSE, M |-> Matrix(0, 0, "ones")]

\* parser_.parseMatrixData(C, calib_matrix_param, nh_): whether the matrix
\* was found, and C
parseMatrixData(param) ==
  [ok |-> ParamServer(param).set, C |-> ParamServer(param).M]

RECURSIVE SumTo(_, _)
SumTo(g, n) == IF n = 0 THEN 0 ELSE SumTo(g, n - 1) + g[n]

\* Eigen: C * x for a matrix C and a vector x of C.cols entries
MatVec(C, x) ==
  [i \in 1..C.rows |-> SumTo([j \in 1..C.cols |-> C.m[i][j] * x[j]], C.cols)]

\* geometry_msgs::Wrench, Eigen 6-vector and KDL::Wrench, and the tf
\* conversions between them
wrenchMsgToEigen(m) ==
  <<m.force[1], m.force[2], m.force[3], m.torque[1], m.torque[2], m.torque[3]>>
wrenchEigenToKDL(e) ==
  [force |-> <<e[1], e[2], e[3]>>, torque |-> <<e[4], e[5], e[6]>>]
wrenchKDLToEigen(k) ==
  <<k.force[1], k.force[2], k.force[3], k.torque[1], k.torque[2], k.torque[3]>>
wrenchKDLToMsg(k) == [force |-> k.force, torque |-> k.torque]

\* KDL::Wrench::Zero()
WrenchZero == [force |-> <<0, 0, 0>>, torque |-> <<0, 0, 0>>]

\* the raw samples the sensors send
RawWrenches ==
  {[force |-> <<f, 2, 3>>, torque |-> <<4, 5, 6>>] : f \in 1..MaxForce}

\* geometry_msgs::Pose: position (x, y, z) and orientation (x, y, z, w)
Pose(p, q) == [position |-> p, orientation |-> q]

\* the pose initializeWrenchComm starts from: the origin of the sensor frame
SensorOrigin == Pose(<<0, 0, 0>>, <<0, 0, 0, 1>>)

\* what the Frame Resolver answers once it does: the sensor origin in the
\* gripping frame.  The left sensor sits at the gripping point; the right
\* one is turned half a turn about z and set off along z
transformPose(target_frame, sensor_frame) ==
  IF sensor_frame = "left_sensor"
    THEN SensorOrigin
    ELSE Pose(<<0, 0, 1>>, <<0, 0, 1, 0>>)

\* KDL::Rotation::Quaternion(x, y, z, w), row by row
RotationQuaternion(q) ==
  LET x == q[1]  y == q[2]  z == q[3]  w == q[4] IN
  << <<w*w + x*x - y*y - z*z, 2*x*y - 2*w*z, 2*x*z + 2*w*y>>,
     <<2*x*y + 2*w*z, w*w - x*x + y*y - z*z, 2*y*z - 2*w*x>>,
     <<2*x*z - 2*w*y, 2*y*z + 2*w*x, w*w - x*x - y*y + z*z>> >>

\* tf::poseMsgToKDL: the KDL::Frame of a pose
poseMsgToKDL(pose) ==
  [M |-> RotationQuaternion(pose.orientation), p |-> pose.position]

RotVec(M, v) ==
  [i \in 1..3 |-> M[i][1] * v[1] + M[i][2] * v[2] + M[i][3] * v[3]]

Cross(a, b) ==
  <<a[2] * b[3] - a[3] * b[2], a[3] * b[1] - a[1] * b[3],
    a[1] * b[2] - a[2] * b[1]>>

VecAdd(a, b) == [i \in 1..3 |-> a[i] + b[i]]

\* KDL: Frame * Wrench
FrameTimesWrench_noMoment(F, w) ==
  [force |-> RotVec(F.M, w.force), torque |-> RotVec(F.M, w.torque)]
FrameTimesWrench(F, w) ==
  [force |-> RotVec(F.M, w.force),
   torque |-> VecAdd(RotVec(F.M, w.torque), Cross(F.p, RotVec(F.M, w.force)))]

\* ManagerBase::getIndex(key, i): the first channel registered under key
getIndex(key) ==
  IF \E n \in 1..Len(manager_index_) : manager_index_[n] = key
    THEN [found |-> TRUE,
          i |-> CHOOSE n \in 1..Len(manager_index_) :
                  /\ manager_index_[n] = key
                  /\ \A k \in 1..(n - 1) : manager_index_[k] # key]
    ELSE [found |-> FALSE, i |-> 0]

\* the output argument of a query that wrote nothing
NoWrench == <<>>

\* the messages an operation that published nothing sent
NoMessage == <<>>

\* geometry_msgs::WrenchStamped, without its time stamp
WrenchStamped(frame_id, wrench) == [frame_id |-> frame_id, wrench |-> wrench]

\* the record of one manager operation; published is the sequence of the
\* messages it sent through processed_ft_pub_
WrenchEvent(op, end_effector, ok, step, tfCalls, tfFailures, param, frame, raw, wrench, published) ==
  [op |-> op, end_effector |-> end_effector, ok |-> ok, step |-> step,
   tfCalls |-> tfCalls, tfFailures |-> tfFailures, param |-> param,
   frame |-> frame, raw |-> raw, wrench |-> wrench, published |-> published,
   retry |-> FALSE]

\* the record of an initializeWrenchComm; retry says that the operation
\* before it was a registration of the same end-effector that failed on
\* its calibration matrix
InitEvent(end_effector, ok, step, tfCalls, tfFailures, param) ==
  [WrenchEvent("initializeWrenchComm", end_effector, ok, step, tfCalls,
               tfFailures, param, "", WrenchZero, NoWrench, NoMessage)
     EXCEPT !.retry = /\ wev.op = "initializeWrenchComm"
                      /\ wev.end_effector = end_effector
                      /\ wev.step \in {"calib_missing", "calib_shape"}]

\* the constructors: max_tf_attempts_ from the parameter server, 5 when the
\* parameter is missing; no channel yet
DefaultMaxTfAttempts == 5

WrenchInit ==
  /\ max_tf_attempts_ \in {DefaultMaxTfAttempts} \cup (0..MaxTfAttemptsParam)
  /\ manager_index_ = <<>>
  /\ sensor_frame_ = <<>>
  /\ gripping_frame_ = <<>>
  /\ calibration_matrix_ = <<>>
  /\ sensor_to_gripping_point_ = <<>>
  /\ measured_wrench_ = <<>>
  /\ ft_sub_ = <<>>
  /\ processed_ft_pub_ = <<>>
  /\ wev = WrenchEvent("init", "", FALSE, "", 0, 0, "", "", WrenchZero, NoWrench, NoMessage)
  /\ ingestedFrames = {}

\* a manager constructed with the default and never used
WrenchIdle ==
  /\ WrenchInit
  /\ max_tf_attempts_ = DefaultMaxTfAttempts

\* if (getIndex(end_effector, a)): the end-effector is already registered
\* (first, the variant without the test)
AlreadyInitialized_never(end_effector) == FALSE
AlreadyInitialized(end_effector) == getIndex(end_effector).found

\* listener_.transformPose on the attempt numbered `attempt` (from 0) of a
\* resolver that throws on its first tfFailures calls and then answers
transformPoseThrows(tfFailures, attempt) == attempt < tfFailures

\* the retry loop of initializeWrenchComm from `attempts` on, `calls` calls
\* of transformPose made so far: the value of attempts after the loop, the
\* calls made, and whether the pose was transformed
RECURSIVE tfLoop(_, _, _)
tfLoop(attempts, calls, tfFailures) ==
  IF attempts < max_tf_attempts_
    THEN IF transformPoseThrows(tfFailures, attempts)
           THEN tfLoop(attempts + 1, calls + 1, tfFailures)
           ELSE [attempts |-> attempts, calls |-> calls + 1, transformed |-> TRUE]
    ELSE [attempts |-> attempts, calls |-> calls, transformed |-> FALSE]

\* if (attempts >= max_tf_attempts_) (first, the variant with >)
TransformNotFound_gt(attempts) == attempts > max_tf_attempts_
TransformNotFound(attempts) == attempts >= max_tf_attempts_

\* if (C.cols() != 6 || C.rows() != 6) (first, the variant that tests the
\* rows alone)
NotSixBySix_rows(C) == C.rows # 6
NotSixBySix(C) == C.cols # 6 \/ C.rows # 6

\* a failed initializeWrenchComm: nothing is stored
InitFails(end_effector, step, tfCalls, tfFailures, param) ==
  /\ UNCHANGED channelVars
  /\ wev' = InitEvent(end_effector, FALSE, step, tfCalls, tfFailures, param)

\* initializeWrenchComm(end_effector, sensor_frame, gripping_point_frame,
\* sensor_topic, calib_matrix_param) with a Frame Resolver that fails
\* tfFailures times before it answers
initializeWrenchComm(end_effector, sensor_frame, gripping_point_frame, sensor_topic, calib_matrix_param, tfFailures) ==
  /\ UNCHANGED <<max_tf_attempts_, ingestedFrames>>
  /\ IF AlreadyInitialized(end_effector)
       THEN InitFails(end_effector, "duplicate", 0, tfFailures, calib_matrix_param)
       ELSE
         LET T == tfLoop(0, 0, tfFailures)
             sensor_to_gripping_point ==
               IF T.transformed
                 THEN transformPose(gripping_point_frame, sensor_frame)
                 ELSE SensorOrigin
             P == parseMatrixData(calib_matrix_param)
         IN
         IF TransformNotFound(T.attempts)
           THEN InitFails(end_effector, "transform", T.calls, tfFailures,
                          calib_matrix_param)
           ELSE IF ~P.ok
             THEN InitFails(end_effector, "calib_missing", T.calls, tfFailures,
                            calib_matrix_param)
             ELSE IF NotSixBySix(P.C)
               THEN InitFails(end_effector, "calib_shape", T.calls, tfFailures,
                              calib_matrix_param)
               ELSE /\ calibration_matrix_' = Append(calibration_matrix_, P.C)
                    /\ manager_index_' = Append(manager_index_, end_effector)
                    /\ sensor_frame_' = Append(sensor_frame_, sensor_frame)
                    /\ sensor_to_gripping_point_' =
                         Append(sensor_to_gripping_point_,
                                poseMsgToKDL(sensor_to_gripping_point))
                    /\ measured_wrench_' = Append(measured_wrench_, WrenchZero)
                    /\ ft_sub_' = Append(ft_sub_, sensor_topic)
                    /\ gripping_frame_' = Append(gripping_frame_, gripping_point_frame)
                    /\ processed_ft_pub_' =
                         Append(processed_ft_pub_, <<sensor_topic, "_converted">>)
                    /\ wev' = InitEvent(end_effector, TRUE, "done", T.calls,
                                        tfFailures, calib_matrix_param)

\* wrenchAtSensorPoint(end_effector, wrench)
wrenchAtSensorPoint_zeroed(end_effector) ==
  /\ UNCHANGED <<max_tf_attempts_, channelVars, ingestedFrames>>
  /\ LET g == getIndex(end_effector) IN
     IF ~g.found
       THEN wev' = WrenchEvent("wrenchAtSensorPoint", end_effector, FALSE, "",
                               0, 0, "", "", WrenchZero,
                               wrenchKDLToEigen(WrenchZero), NoMessage)
       ELSE wev' = WrenchEvent("wrenchAtSensorPoint", end_effector, TRUE, "",
                               0, 0, "", "", WrenchZero,
                               wrenchKDLToEigen(measured_wrench_[g.i]), NoMessage)
wrenchAtSensorPoint(end_effector) ==
  /\ UNCHANGED <<max_tf_attempts_, channelVars, ingestedFrames>>
  /\ LET g == getIndex(end_effector) IN
     IF ~g.found
       THEN wev' = WrenchEvent("wrenchAtSensorPoint", end_effector, FALSE, "",
                               0, 0, "", "", WrenchZero, NoWrench, NoMessage)
       ELSE wev' = WrenchEvent("wrenchAtSensorPoint", end_effector, TRUE, "",
                               0, 0, "", "", WrenchZero,
                               wrenchKDLToEigen(measured_wrench_[g.i]), NoMessage)

\* wrenchAtGrippingPoint(end_effector, wrench)
wrenchAtGrippingPoint(end_effector) ==
  /\ UNCHANGED <<max_tf_attempts_, channelVars, ingestedFrames>>
  /\ LET g == getIndex(end_effector) IN
     IF ~g.found
       THEN wev' = WrenchEvent("wrenchAtGrippingPoint", end_effector, FALSE, "",
                               0, 0, "", "", WrenchZero, NoWrench, NoMessage)
       ELSE LET wrench_kdl ==
                  FrameTimesWrench(sensor_to_gripping_point_[g.i],
                                   measured_wrench_[g.i])
                temp_wrench ==
                  WrenchStamped(gripping_frame_[g.i], wrenchKDLToMsg(wrench_kdl))
            IN wev' = WrenchEvent("wrenchAtGrippingPoint", end_effector, TRUE, "",
                                  0, 0, "", "", WrenchZero,
                                  wrenchKDLToEigen(wrench_kdl), <<temp_wrench>>)

\* the search of forceTorqueCB: the first i with sensor_frame_[i] equal to
\* the frame id of the message, -1 when there is none (indices from 1)
SensorNum_unset(frame_id) ==
  IF \E i \in 1..Len(sensor_frame_) : sensor_frame_[i] = frame_id
    THEN CHOOSE i \in 1..Len(sensor_frame_) :
           /\ sensor_frame_[i] = frame_id
           /\ \A k \in 1..(i - 1) : sensor_frame_[k] # frame_id
    ELSE 1
SensorNum_last(frame_id) ==
  IF \E i \in 1..Len(sensor_frame_) : sensor_frame_[i] = frame_id
    THEN CHOOSE i \in 1..Len(sensor_frame_) :
           /\ sensor_frame_[i] = frame_id
           /\ \A k \in (i + 1)..Len(sensor_frame_) : sensor_frame_[k] # frame_id
    ELSE -1
SensorNum(frame_id) ==
  IF \E i \in 1..Len(sensor_frame_) : sensor_frame_[i] = frame_id
    THEN CHOOSE i \in 1..Len(sensor_frame_) :
           /\ sensor_frame_[i] = frame_id
           /\ \A k \in 1..(i - 1) : sensor_frame_[k] # frame_id
    ELSE -1

\* wrench_eig = calibration_matrix_[sensor_num] * wrench_eig (first, the
\* variant that leaves the sample uncalibrated)
ApplyCalibration_skip(C, wrench_eig) == wrench_eig
ApplyCalibration(C, wrench_eig) == MatVec(C, wrench_eig)

\* forceTorqueCB(msg): a subscription delivers a sample
forceTorqueCB(frame_id, wrench) ==
  /\ Len(ft_sub_) > 0
  /\ UNCHANGED <<max_tf_attempts_, manager_index_, sensor_frame_, gripping_frame_,
                 calibration_matrix_, sensor_to_gripping_point_, ft_sub_,
                 processed_ft_pub_>>
  /\ LET sensor_num == SensorNum(frame_id) IN
     IF sensor_num < 0
       THEN /\ UNCHANGED <<measured_wrench_, ingestedFrames>>
            /\ wev' = WrenchEvent("forceTorqueCB", "", FALSE, "", 0, 0, "",
                                  frame_id, wrench, NoWrench, NoMessage)
       ELSE LET wrench_eig ==
                  ApplyCalibration(calibration_matrix_[sensor_num],
                                   wrenchMsgToEigen(wrench))
            IN
            /\ ingestedFrames' = ingestedFrames \cup {frame_id}
            /\ measured_wrench_' =
                 [measured_wrench_ EXCEPT ![sensor_num] = wrenchEigenToKDL(wrench_eig)]
            /\ wev' = WrenchEvent("forceTorqueCB", "", TRUE, "", 0, 0, "",
                                  frame_id, wrench, NoWrench, NoMessage)

(***************************************************************************)
(* Specifications                                                          *)
(***************************************************************************)
\* every call runs from its first line to its return in one step
NoCalls == [calls |-> "atomic"]

UpdateControlStep ==
  \E c \in CurrentStates, dt \in Durations : updateControl(c, dt)

GoalStep == \E ok \in BOOLEAN : goalCB(ok)

CtrlNext ==
  \/ UpdateControlStep /\ UNCHANGED <<wrenchVars, inflight>>
  \/ GoalStep /\ UNCHANGED <<wrenchVars, inflight>>
  \/ preemptCB /\ UNCHANGED <<wrenchVars, inflight>>
  \/ resetInternalState /\ UNCHANGED <<wrenchVars, inflight>>

\* one controller, with a manager that is constructed and left alone
CtrlSpecInit == CtrlInit /\ WrenchIdle /\ inflight = NoCalls

CtrlSpec == CtrlSpecInit /\ [][CtrlNext]_vars

RegisterStep ==
  \E e \in EndEffectors, sf \in SensorFrames, gf \in GrippingFrames,
     t \in SensorTopics, c \in CalibParams,
     k \in 0..max_tf_attempts_ :
       initializeWrenchComm(e, sf, gf, t, c, k)

SensorQueryStep == \E e \in EndEffectors : wrenchAtSensorPoint(e)

GrippingQueryStep == \E e \in EndEffectors : wrenchAtGrippingPoint(e)

SampleStep == \E f \in SampleFrames, w \in RawWrenches : forceTorqueCB(f, w)

WrenchNext ==
  \/ RegisterStep /\ UNCHANGED <<ctrlVars, inflight>>
  \/ SensorQueryStep /\ UNCHANGED <<ctrlVars, inflight>>
  \/ GrippingQueryStep /\ UNCHANGED <<ctrlVars, inflight>>
  \/ SampleStep /\ UNCHANGED <<ctrlVars, inflight>>

\* one manager, with a controller that is constructed and left alone
WrenchSpecInit == CtrlInit /\ WrenchInit /\ inflight = NoCalls

WrenchSpec == WrenchSpecInit /\ [][WrenchNext]_vars

(***************************************************************************)
(* updateControl on the control thread while the action server's thread    *)
(* runs goalCB and preemptCB.  No member of ControllerTemplate is guarded   *)
(* by a lock, so the statements of the two threads interleave.  inflight    *)
(* holds uc, the position and locals of updateControl; cb, the position of  *)
(* goalCB; and algBeforeParse, which records that controlAlgorithm was      *)
(* invoked while goalCB stood between acceptNewGoal and the return of       *)
(* parseGoal.                                                              *)
(***************************************************************************)
ucHistory == <<everAccepted, everReset, firstValid, goalHist>>

UcIdle == [pc |-> "idle", current |-> EmptyJointState, dt |-> NoDuration,
           ret |-> EmptyJointState, reset |-> FALSE]

UcSet(uc) == [inflight EXCEPT !.uc = uc]

\* line 139-150: the two early returns, else on to controlAlgorithm
updateControl_enter(current_state, dt) ==
  /\ inflight.uc.pc = "idle"
  /\ UNCHANGED <<ucHistory, acquired_goal_>>
  /\ IF ~isActive \/ ~acquired_goal_
       THEN LET L == lastState(current_state, last_state_, has_state_) IN
            /\ last_state_' = L.last_state
            /\ has_state_' = L.has_state
            /\ UNCHANGED <<goal_status, inflight>>
            /\ ev' = Event("updateControl", current_state, dt, L.ret, FALSE,
                           EmptyJointState, FALSE, FALSE, FALSE)
       ELSE IF LostCommunication(dt)
         THEN LET L == lastState(current_state, last_state_, has_state_) IN
              /\ goal_status' = "aborted"
              /\ last_state_' = L.last_state
              /\ has_state_' = L.has_state
              /\ UNCHANGED inflight
              /\ ev' = Event("updateControl", current_state, dt, L.ret, FALSE,
                             EmptyJointState, TRUE, FALSE, FALSE)
         ELSE /\ inflight' = UcSet([UcIdle EXCEPT !.pc = "controlAlgorithm",
                                                  !.current = current_state,
                                                  !.dt = dt])
              /\ UNCHANGED <<goal_status, last_state_, has_state_, ev>>

\* line 152-153: controlAlgorithm returns r and does e to the goal that is
\* active while it runs; publishFeedback
updateControl_algorithm(r, e) ==
  /\ inflight.uc.pc = "controlAlgorithm"
  /\ goal_status' = IF e # "none" /\ isActive THEN e ELSE goal_status
  /\ inflight' = [inflight EXCEPT
                    !.uc.pc = "isActive", !.uc.ret = r,
                    !.algBeforeParse = @ \/ inflight.cb.pc = "parseGoal"]
  /\ UNCHANGED <<last_state_, has_state_, acquired_goal_, ev, ucHistory>>

\* line 155: if (!action_server_->isActive())
updateControl_isActive ==
  /\ inflight.uc.pc = "isActive"
  /\ inflight' = [inflight EXCEPT
                    !.uc.pc = IF ~isActive THEN "resetInternalState" ELSE "sanity"]
  /\ UNCHANGED ctrlVars

\* line 156-157: resetInternalState()
updateControl_reset ==
  /\ inflight.uc.pc = "resetInternalState"
  /\ has_state_' = resetFlags.has_state
  /\ acquired_goal_' = resetFlags.acquired_goal
  /\ inflight' = [inflight EXCEPT !.uc.pc = "sanity", !.uc.reset = TRUE]
  /\ UNCHANGED <<goal_status, last_state_, ev, ucHistory>>

\* line 160-170: the sanity loop and the return
updateControl_return ==
  /\ inflight.uc.pc = "sanity"
  /\ LET uc == inflight.uc
         L == lastState(uc.current, last_state_, has_state_)
     IN IF InvalidJointStates(uc.ret)
          THEN /\ last_state_' = L.last_state
               /\ has_state_' = L.has_state
               /\ ev' = Event("updateControl", uc.current, uc.dt, L.ret,
                              TRUE, uc.ret, FALSE, uc.reset, FALSE)
          ELSE /\ UNCHANGED <<last_state_, has_state_>>
               /\ ev' = Event("updateControl", uc.current, uc.dt, uc.ret,
                              TRUE, uc.ret, FALSE, uc.reset, FALSE)
  /\ inflight' = UcSet(UcIdle)
  /\ UNCHANGED <<goal_status, acquired_goal_, ucHistory>>

\* line 224: acceptNewGoal(); no goal is active when goalCB starts
goalCB_accept ==
  /\ inflight.cb.pc = "idle"
  /\ ~isActive
  /\ goal_status' = "active"
  /\ inflight' = [inflight EXCEPT !.cb.pc = "parseGoal"]
  /\ UNCHANGED <<last_state_, has_state_, acquired_goal_, ev, ucHistory>>

\* line 226-234: parseGoal returns parseOk; setAborted, or acquired_goal_ = true
goalCB_parsed(parseOk) ==
  /\ inflight.cb.pc = "parseGoal"
  /\ goal_status' = IF ~parseOk /\ isActive THEN "aborted" ELSE goal_status
  /\ acquired_goal_' = IF parseOk THEN TRUE ELSE acquired_goal_
  /\ inflight' = [inflight EXCEPT !.cb.pc = "idle"]
  /\ ev' = Event("goalCB", EmptyJointState, NoDuration, EmptyJointState,
                 FALSE, EmptyJointState, ~parseOk, FALSE, parseOk)
  /\ UNCHANGED <<last_state_, has_state_, ucHistory>>

\* preemptCB, which the action server's thread runs between its goal callbacks
preemptCB_between ==
  /\ inflight.cb.pc = "idle"
  /\ preemptCB
  /\ UNCHANGED inflight

UcEnterStep ==
  \E c \in CurrentStates, dt \in Durations : updateControl_enter(c, dt)

UcAlgorithmStep ==
  \E r \in AlgorithmOutputs, e \in AlgorithmEffects : updateControl_algorithm(r, e)

GoalParsedStep == \E ok \in BOOLEAN : goalCB_parsed(ok)

CtrlRaceNext ==
  \/ UcEnterStep /\ UNCHANGED wrenchVars
  \/ UcAlgorithmStep /\ UNCHANGED wrenchVars
  \/ updateControl_isActive /\ UNCHANGED wrenchVars
  \/ updateControl_reset /\ UNCHANGED wrenchVars
  \/ updateControl_return /\ UNCHANGED wrenchVars
  \/ goalCB_accept /\ UNCHANGED wrenchVars
  \/ GoalParsedStep /\ UNCHANGED wrenchVars
  \/ preemptCB_between /\ UNCHANGED wrenchVars

CtrlRaceInit ==
  /\ CtrlInit /\ WrenchIdle
  /\ inflight = [uc |-> UcIdle, cb |-> [pc |-> "idle"], algBeforeParse |-> FALSE]

CtrlRaceSpec == CtrlRaceInit /\ [][CtrlRaceNext]_vars

(***************************************************************************)
(* forceTorqueCB on the subscriber's thread while another thread runs       *)
(* wrenchAtSensorPoint or wrenchAtGrippingPoint.  WrenchManager takes no    *)
(* lock, and a KDL::Wrench is six doubles that are written and read one     *)
(* after the other: the force, then the torque.  inflight holds ft, the     *)
(* position and locals of forceTorqueCB, with the measured wrench of its    *)
(* channel before (old) and after (new) the sample; and q, the position and *)
(* locals of the query, with the measured wrench it has read so far (seen)  *)
(* and the values the channel's measured wrench held, whole, while the      *)
(* query ran (whole).                                                       *)
(***************************************************************************)
FtIdle == [pc |-> "idle", n |-> 0, frame |-> "", raw |-> WrenchZero,
           old |-> WrenchZero, new |-> WrenchZero]

QIdle == [pc |-> "idle", op |-> "", end_effector |-> "", arm |-> 0,
          seen |-> WrenchZero, whole |-> {}]

Queries == {"wrenchAtSensorPoint", "wrenchAtGrippingPoint"}

\* line 139-156: the search, the drop of an unknown frame, the calibration
forceTorqueCB_find(frame_id, wrench) ==
  /\ inflight.ft.pc = "idle"
  /\ Len(ft_sub_) > 0
  /\ UNCHANGED <<max_tf_attempts_, channelVars, ingestedFrames>>
  /\ LET sensor_num == SensorNum(frame_id) IN
     IF sensor_num < 0
       THEN /\ wev' = WrenchEvent("forceTorqueCB", "", FALSE, "", 0, 0, "",
                                  frame_id, wrench, NoWrench, NoMessage)
            /\ UNCHANGED inflight
       ELSE LET wrench_eig ==
                  ApplyCalibration(calibration_matrix_[sensor_num],
                                   wrenchMsgToEigen(wrench))
                new == wrenchEigenToKDL(wrench_eig)
            IN
            /\ inflight' =
                 [inflight EXCEPT
                    !.ft = [pc |-> "write_force", n |-> sensor_num,
                            frame |-> frame_id, raw |-> wrench,
                            old |-> measured_wrench_[sensor_num], new |-> new],
                    !.q.whole = IF inflight.q.pc # "idle"
                                   /\ inflight.q.arm = sensor_num
                                  THEN @ \cup {new} ELSE @]
            /\ UNCHANGED wev

\* line 158, first half: the force of measured_wrench_[sensor_num]
forceTorqueCB_writeForce ==
  /\ inflight.ft.pc = "write_force"
  /\ measured_wrench_' =
       [measured_wrench_ EXCEPT ![inflight.ft.n].force = inflight.ft.new.force]
  /\ inflight' = [inflight EXCEPT !.ft.pc = "write_torque"]
  /\ UNCHANGED <<max_tf_attempts_, manager_index_, sensor_frame_,
                 gripping_frame_, calibration_matrix_,
                 sensor_to_gripping_point_, ft_sub_, processed_ft_pub_, wev,
                 ingestedFrames>>

\* line 158, second half: the torque, and the return
forceTorqueCB_writeTorque ==
  /\ inflight.ft.pc = "write_torque"
  /\ measured_wrench_' =
       [measured_wrench_ EXCEPT ![inflight.ft.n].torque = inflight.ft.new.torque]
  /\ ingestedFrames' = ingestedFrames \cup {inflight.ft.frame}
  /\ wev' = WrenchEvent("forceTorqueCB", "", TRUE, "", 0, 0, "",
                        inflight.ft.frame, inflight.ft.raw, NoWrench, NoMessage)
  /\ inflight' = [inflight EXCEPT !.ft = FtIdle]
  /\ UNCHANGED <<max_tf_attempts_, manager_index_, sensor_frame_,
                 gripping_frame_, calibration_matrix_,
                 sensor_to_gripping_point_, ft_sub_, processed_ft_pub_>>

\* line 104-108 and 126-130: getIndex, and the return for an unknown name
query_find(op, end_effector) ==
  /\ inflight.q.pc = "idle"
  /\ LET g == getIndex(end_effector) IN
     IF ~g.found
       THEN /\ IF op = "wrenchAtSensorPoint"
                 THEN wrenchAtSensorPoint(end_effector)
                 ELSE wrenchAtGrippingPoint(end_effector)
            /\ inflight' = [inflight EXCEPT !.q = QIdle]
       ELSE /\ UNCHANGED wrenchVars
            /\ inflight' =
                 [inflight EXCEPT
                    !.q = [pc |-> "read_force", op |-> op,
                           end_effector |-> end_effector, arm |-> g.i,
                           seen |-> WrenchZero,
                           whole |-> IF inflight.ft.pc # "idle"
                                        /\ inflight.ft.n = g.i
                                       THEN {inflight.ft.old, inflight.ft.new}
                                       ELSE {measured_wrench_[g.i]}]]

\* line 110 and 132, first half: the force of measured_wrench_[arm]
query_readForce ==
  /\ inflight.q.pc = "read_force"
  /\ inflight' = [inflight EXCEPT
                    !.q.pc = "read_torque",
                    !.q.seen.force = measured_wrench_[inflight.q.arm].force]
  /\ UNCHANGED wrenchVars

\* line 110-121 and 132-134: the torque, the output, publish and the return
query_readTorque ==
  /\ inflight.q.pc = "read_torque"
  /\ UNCHANGED <<max_tf_attempts_, channelVars, ingestedFrames>>
  /\ LET q == inflight.q
         seen == [force |-> q.seen.force,
                  torque |-> measured_wrench_[q.arm].torque]
         wrench_kdl == FrameTimesWrench(sensor_to_gripping_point_[q.arm], seen)
         temp_wrench ==
           WrenchStamped(gripping_frame_[q.arm], wrenchKDLToMsg(wrench_kdl))
     IN /\ inflight' = [inflight EXCEPT !.q.pc = "idle", !.q.seen = seen]
        /\ wev' = IF q.op = "wrenchAtSensorPoint"
                    THEN WrenchEvent(q.op, q.end_effector, TRUE, "", 0, 0, "",
                                     "", WrenchZero, wrenchKDLToEigen(seen),
                                     NoMessage)
                    ELSE WrenchEvent(q.op, q.end_effector, TRUE, "", 0, 0, "",
                                     "", WrenchZero,
                                     wrenchKDLToEigen(wrench_kdl),
                                     <<temp_wrench>>)

\* registration, while no sample and no query is in progress
RaceRegisterStep ==
  /\ inflight.ft.pc = "idle" /\ inflight.q.pc = "idle"
  /\ \E e \in EndEffectors, sf \in SensorFrames, g \in GrippingFrames,
        t \in SensorTopics, c \in {"left/sensor_calib", "right/sensor_calib"} :
       initializeWrenchComm(e, sf, g, t, c, 0)
  /\ UNCHANGED inflight

FtFindStep ==
  \E f \in SampleFrames, w \in RawWrenches : forceTorqueCB_find(f, w)

QueryFindStep == \E op \in Queries, e \in EndEffectors : query_find(op, e)

WrenchRaceNext ==
  \/ RaceRegisterStep /\ UNCHANGED ctrlVars
  \/ FtFindStep /\ UNCHANGED ctrlVars
  \/ forceTorqueCB_writeForce /\ UNCHANGED ctrlVars
  \/ forceTorqueCB_writeTorque /\ UNCHANGED ctrlVars
  \/ QueryFindStep /\ UNCHANGED ctrlVars
  \/ query_readForce /\ UNCHANGED ctrlVars
  \/ query_readTorque /\ UNCHANGED ctrlVars

WrenchRaceInit ==
  /\ CtrlInit /\ WrenchIdle
  /\ inflight = [ft |-> FtIdle, q |-> QIdle]

WrenchRaceSpec == WrenchRaceInit /\ [][WrenchRaceNext]_vars

(***************************************************************************)
(* Two threads, each in initializeWrenchComm for its own end-effector.      *)
(* Nothing serializes the push_back calls of line 89-97, so the appends of  *)
(* the two calls interleave; each push_back is taken as one step.  inflight *)
(* holds reg, the position and the arguments and locals of each call.       *)
(***************************************************************************)
RegThreads == 1..2

\* the end-effector each thread registers
RegEndEffector(t) == IF t = 1 THEN "left_arm" ELSE "right_arm"

RegIdle == [pc |-> "idle", ok |-> FALSE, end_effector |-> "",
            sensor_frame |-> "", gripping_point_frame |-> "",
            sensor_topic |-> "", calib_matrix_param |-> "",
            C |-> Matrix(0, 0, "ones"),
            sensor_to_gripping_point_kdl |-> poseMsgToKDL(SensorOrigin)]

\* the statement after the push_back at pc
AfterPush(pc) ==
  CASE pc = "calibration_matrix_" -> "manager_index_"
    [] pc = "manager_index_" -> "sensor_frame_"
    [] pc = "sensor_frame_" -> "sensor_to_gripping_point_"
    [] pc = "sensor_to_gripping_point_" -> "measured_wrench_"
    [] pc = "measured_wrench_" -> "ft_sub_"
    [] pc = "ft_sub_" -> "gripping_frame_"
    [] pc = "gripping_frame_" -> "processed_ft_pub_"
    [] OTHER -> "return"

\* line 34-85: the checks of the call of thread t; the Frame Resolver answers
\* at the first attempt
initializeWrenchComm_checks(t, sensor_frame, gripping_point_frame, sensor_topic, calib_matrix_param) ==
  /\ inflight.reg[t].pc = "idle"
  /\ UNCHANGED <<max_tf_attempts_, channelVars, ingestedFrames>>
  /\ LET end_effector == RegEndEffector(t)
         T == tfLoop(0, 0, 0)
         P == parseMatrixData(calib_matrix_param)
         failed == \/ AlreadyInitialized(end_effector)
                   \/ TransformNotFound(T.attempts)
                   \/ ~P.ok
                   \/ NotSixBySix(P.C)
         step == IF AlreadyInitialized(end_effector) THEN "duplicate"
                 ELSE IF TransformNotFound(T.attempts) THEN "transform"
                 ELSE IF ~P.ok THEN "calib_missing" ELSE "calib_shape"
         call == [RegIdle EXCEPT
                    !.end_effector = end_effector,
                    !.sensor_frame = sensor_frame,
                    !.gripping_point_frame = gripping_point_frame,
                    !.sensor_topic = sensor_topic,
                    !.calib_matrix_param = calib_matrix_param]
     IN IF failed
          THEN /\ inflight' = [inflight EXCEPT !.reg[t] =
                                 [call EXCEPT !.pc = "done"]]
               /\ wev' = InitEvent(end_effector, FALSE, step, T.calls, 0,
                                   calib_matrix_param)
          ELSE /\ inflight' = [inflight EXCEPT !.reg[t] =
                                 [call EXCEPT
                                    !.pc = "calibration_matrix_",
                                    !.C = P.C,
                                    !.sensor_to_gripping_point_kdl =
                                      poseMsgToKDL(transformPose(gripping_point_frame,
                                                                 sensor_frame))]]
               /\ UNCHANGED wev

\* line 89-97: the push_back thread t has reached
initializeWrenchComm_push(t) ==
  LET r == inflight.reg[t]
      pc == r.pc
      Push(name, seq, x) == IF pc = name THEN Append(seq, x) ELSE seq
  IN
  /\ pc \notin {"idle", "return", "done"}
  /\ calibration_matrix_' = Push("calibration_matrix_", calibration_matrix_, r.C)
  /\ manager_index_' = Push("manager_index_", manager_index_, r.end_effector)
  /\ sensor_frame_' = Push("sensor_frame_", sensor_frame_, r.sensor_frame)
  /\ sensor_to_gripping_point_' =
       Push("sensor_to_gripping_point_", sensor_to_gripping_point_,
            r.sensor_to_gripping_point_kdl)
  /\ measured_wrench_' = Push("measured_wrench_", measured_wrench_, WrenchZero)
  /\ ft_sub_' = Push("ft_sub_", ft_sub_, r.sensor_topic)
  /\ gripping_frame_' = Push("gripping_frame_", gripping_frame_, r.gripping_point_frame)
  /\ processed_ft_pub_' =
       Push("processed_ft_pub_", processed_ft_pub_, <<r.sensor_topic, "_converted">>)
  /\ inflight' = [inflight EXCEPT !.reg[t].pc = AfterPush(pc)]
  /\ UNCHANGED <<max_tf_attempts_, wev, ingestedFrames>>

\* line 99: return true
initializeWrenchComm_return(t) ==
  /\ inflight.reg[t].pc = "return"
  /\ inflight' = [inflight EXCEPT !.reg[t].pc = "done", !.reg[t].ok = TRUE]
  /\ wev' = InitEvent(inflight.reg[t].end_effector, TRUE, "done", 1, 0,
                      inflight.reg[t].calib_matrix_param)
  /\ UNCHANGED <<max_tf_attempts_, channelVars, ingestedFrames>>

RegChecksStep ==
  \E t \in RegThreads, sf \in SensorFrames, g \in GrippingFrames,
     st \in SensorTopics, c \in CalibParams :
    initializeWrenchComm_checks(t, sf, g, st, c)

RegPushStep == \E t \in RegThreads : initializeWrenchComm_push(t)

RegReturnStep == \E t \in RegThreads : initializeWrenchComm_return(t)

RegRaceNext ==
  \/ RegChecksStep /\ UNCHANGED ctrlVars
  \/ RegPushStep /\ UNCHANGED ctrlVars
  \/ RegReturnStep /\ UNCHANGED ctrlVars

RegRaceInit ==
  /\ CtrlInit /\ WrenchIdle
  /\ inflight = [reg |-> [t \in RegThreads |-> RegIdle]]

RegRaceSpec == RegRaceInit /\ [][RegRaceNext]_vars

(***************************************************************************)
(* Properties of the controller lifecycle, under CtrlSpec                  *)
(***************************************************************************)
AllZero(s) == \A i \in 1..Len(s) : s[i] = 0

\* some position or velocity entry of js is NaN or infinite
HasNonFinite(js) ==
  \/ \E i \in 1..Len(js.position) : js.position[i] \in {NaN, Inf}
  \/ \E i \in 1..Len(js.velocity) : js.velocity[i] \in {NaN, Inf}

\* current with its velocities zeroed, written out for the properties
Held(current) ==
  [name |-> current.name, position |-> current.position,
   velocity |-> [i \in 1..Len(current.velocity) |-> 0]]

\* C1: as long as only updateControl has been called (no goal was ever
\* accepted, resetInternalState was never called), every state updateControl
\* returns has all velocities zero, and once a non-empty current state has
\* been passed in, the returned positions are those of the first such state.
C1_IdleHold ==
  (~everAccepted /\ ~everReset /\ ev.op = "updateControl") =>
    /\ AllZero(ev.ret.velocity)
    /\ firstValid.set => ev.ret.position = firstValid.js.position

\* a later, different valid current state was passed in and the hold still
\* returned the first one, whose velocity was not zero
C1_Witness ==
  /\ ~everAccepted /\ ~everReset /\ ev.op = "updateControl"
  /\ firstValid.set
  /\ Len(ev.current.position) # 0
  /\ ev.current.position # firstValid.js.position
  /\ ~AllZero(firstValid.js.velocity)
  /\ ev.ret.position = firstValid.js.position

\* C2: an updateControl call made while the goal is active and acquired
\* aborts the goal (line 148) exactly when dt is strictly greater than
\* MAX_DT, and invokes controlAlgorithm exactly when it is not; at dt equal
\* to MAX_DT the algorithm runs and the lifecycle does not abort.
C2_StaleBoundary ==
  [][(ev'.op = "updateControl" /\ isActive /\ acquired_goal_) =>
       /\ ev'.lifecycleAborted <=> (toSec(ev'.dt) > MAX_DT)
       /\ ev'.algInvoked <=> ~(toSec(ev'.dt) > MAX_DT)
       /\ ev'.lifecycleAborted => goal_status' = "aborted"
       /\ toSec(ev'.dt) = MAX_DT => (ev'.algInvoked /\ ~ev'.lifecycleAborted)
    ]_vars

\* the algorithm ran on a call whose dt is exactly MAX_DT and the goal lives
C2_Witness ==
  /\ ev.op = "updateControl" /\ ev.algInvoked
  /\ toSec(ev.dt) = MAX_DT
  /\ goal_status = "active"

\* C3, as claimed: on the stale-dt path updateControl returns the state
\* that was cached before the call and leaves the cache as it was.
C3_StaleReturnsOldCache ==
  [][(ev'.op = "updateControl" /\ ev'.lifecycleAborted) =>
       (ev'.ret = last_state_ /\ last_state_' = last_state_)]_vars

\* C3, amended: on the stale-dt path updateControl returns the previously
\* cached state and leaves the cache untouched when has_state_ is set or the
\* current state is empty; when has_state_ is clear and the current state is
\* valid it returns the current state with zeroed velocities and caches it.
C3_StaleReturnsLastState ==
  [][(ev'.op = "updateControl" /\ ev'.lifecycleAborted) =>
       IF has_state_ \/ Len(ev'.current.position) = 0
         THEN ev'.ret = last_state_ /\ last_state_' = last_state_
         ELSE ev'.ret = Held(ev'.current) /\ last_state_' = Held(ev'.current)
    ]_vars

\* a stale call seeded the cache from a current state with moving joints
C3_Witness ==
  /\ ev.op = "updateControl" /\ ev.lifecycleAborted
  /\ Len(ev.current.position) # 0
  /\ ~AllZero(ev.current.velocity)
  /\ ev.ret = Held(ev.current)
  /\ last_state_ = ev.ret

\* C4, as claimed: whenever controlAlgorithm's output has a non-finite
\* position or velocity entry, updateControl returns the last known state
\* and not that output, and the lifecycle does not abort the goal.
C4_NonFiniteSubstituted ==
  (ev.op = "updateControl" /\ ev.algInvoked /\ HasNonFinite(ev.algRet)) =>
    /\ ev.ret # ev.algRet
    /\ ev.ret = last_state_
    /\ ~ev.lifecycleAborted

\* C5: a goal callback whose parseGoal fails sets the goal aborted, leaves
\* isActive() false, and leaves last_state_, has_state_ and acquired_goal_
\* as they were.
C5_ParseFailure ==
  [][(ev'.op = "goalCB" /\ ~ev'.parseOk) =>
       /\ goal_status' = "aborted"
       /\ ~isActive'
       /\ last_state_' = last_state_
       /\ has_state_' = has_state_
       /\ acquired_goal_' = acquired_goal_
    ]_vars

\* a parse failure on a lifecycle that never acquired a goal and holds a state
C5_Witness ==
  /\ ev.op = "goalCB" /\ ~ev.parseOk
  /\ goal_status = "aborted"
  /\ ~acquired_goal_ /\ has_state_
  /\ last_state_ # EmptyJointState

\* C6: preemptCB leaves the goal preempted, has_state_ and acquired_goal_
\* false and resetController invoked; an updateControl that comes right
\* after it does not invoke controlAlgorithm and returns the hold state
\* (the cache for an empty current state, else the current state with
\* zeroed velocities, which becomes the cache).
C6_Preempt ==
  [][/\ ev'.op = "preemptCB" =>
          /\ isActive
          /\ goal_status' = "preempted"
          /\ ~has_state_' /\ ~acquired_goal_'
          /\ ev'.resetControllerCalled
     /\ (ev.op = "preemptCB" /\ ev'.op = "updateControl") =>
          /\ ~ev'.algInvoked
          /\ ev'.ret = last_state_'
          /\ ev'.ret = IF Len(ev'.current.position) = 0
                         THEN last_state_ ELSE Held(ev'.current)
          /\ goal_status' = "preempted"
    ]_vars

\* after a preemption an updateControl held a fresh current state
C6_Witness ==
  /\ goal_status = "preempted" /\ ~acquired_goal_
  /\ ev.op = "updateControl" /\ ~ev.algInvoked
  /\ Len(ev.current.position) # 0
  /\ ev.ret = Held(ev.current)

(***************************************************************************)
(* Properties of the wrench manager, under WrenchSpec                      *)
(***************************************************************************)
RegisteredIn(names, end_effector) ==
  \E i \in 1..Len(names) : names[i] = end_effector

Registered(end_effector) == RegisteredIn(manager_index_, end_effector)

\* the channel of a registered end-effector
ChannelOf(end_effector) ==
  CHOOSE i \in 1..Len(manager_index_) : manager_index_[i] = end_effector

PairwiseDistinct(names) ==
  \A i, j \in 1..Len(names) : names[i] = names[j] => i = j

\* the parameter is not set, or holds a matrix that is not 6x6
BadCalibration(param) ==
  \/ ~ParamServer(param).set
  \/ ParamServer(param).M.rows # 6
  \/ ParamServer(param).M.cols # 6

\* the 6-vector of a raw sample: force, then torque
SampleVector(raw) == raw.force \o raw.torque

Zero6 == <<0, 0, 0, 0, 0, 0>>

\* C7: an initializeWrenchComm that names an end-effector already registered
\* returns false and changes none of the channel sequences; the registered
\* names stay pairwise distinct.
C7_DuplicateRejected ==
  [][/\ (wev'.op = "initializeWrenchComm" /\ Registered(wev'.end_effector)) =>
          (~wev'.ok /\ UNCHANGED channelVars)
     /\ PairwiseDistinct(manager_index_')
    ]_vars

\* a second registration of a name was refused although its transform
\* resolves at once and its calibration matrix is valid
C7_Witness ==
  /\ wev.op = "initializeWrenchComm" /\ wev.step = "duplicate" /\ ~wev.ok
  /\ wev.tfFailures = 0
  /\ ~BadCalibration(wev.param)
  /\ Len(manager_index_) = 2

\* C8: an initializeWrenchComm whose calibration parameter is missing or not
\* 6x6 returns false, changes none of the channel sequences and leaves the
\* end-effector's registration as it was; and a call for an unregistered
\* name whose transform resolves within the attempts and whose matrix is
\* 6x6 succeeds, also right after such a failure.
C8_BadCalibrationRejected ==
  [][/\ (wev'.op = "initializeWrenchComm" /\ BadCalibration(wev'.param)) =>
          /\ ~wev'.ok
          /\ UNCHANGED channelVars
          /\ RegisteredIn(manager_index_', wev'.end_effector)
               <=> Registered(wev'.end_effector)
     /\ (/\ wev'.op = "initializeWrenchComm"
         /\ ~Registered(wev'.end_effector)
         /\ wev'.tfFailures < max_tf_attempts_
         /\ ~BadCalibration(wev'.param)) =>
          /\ wev'.ok
          /\ RegisteredIn(manager_index_', wev'.end_effector)
          /\ calibration_matrix_'[Len(calibration_matrix_')] =
               ParamServer(wev'.param).M
    ]_vars

\* a registration succeeded right after one of the same name failed on its
\* calibration matrix
C8_Witness ==
  /\ wev.op = "initializeWrenchComm" /\ wev.ok /\ wev.retry
  /\ Registered(wev.end_effector)

\* C9: an initializeWrenchComm that gets past the duplicate check calls the
\* Frame Resolver at most max_tf_attempts_ times, stops at the first call
\* that succeeds, and fails on the transform (returns false, channel
\* sequences unchanged) exactly when the first max_tf_attempts_ calls fail.
C9_TransformRetry ==
  [][(wev'.op = "initializeWrenchComm" /\ wev'.step # "duplicate") =>
       /\ wev'.tfCalls <= max_tf_attempts_
       /\ wev'.tfCalls = IF wev'.tfFailures < max_tf_attempts_
                           THEN wev'.tfFailures + 1
                           ELSE max_tf_attempts_
       /\ (wev'.step = "transform") <=> (wev'.tfFailures >= max_tf_attempts_)
       /\ (wev'.step = "transform") => (~wev'.ok /\ UNCHANGED channelVars)
    ]_vars

\* with the default of 5 attempts, a registration succeeded on the fifth
C9_Witness ==
  /\ wev.op = "initializeWrenchComm" /\ wev.ok
  /\ max_tf_attempts_ = 5
  /\ wev.tfFailures = 4 /\ wev.tfCalls = 5

\* C10, as claimed: for every registered channel, wrenchAtSensorPoint right
\* after a sample with the channel's sensor frame returns the calibration
\* matrix times the raw sample, and it returns zero while no sample with
\* that frame has been stored.
C10_RoundTrip ==
  [][/\ (/\ wev.op = "forceTorqueCB"
         /\ wev'.op = "wrenchAtSensorPoint" /\ wev'.ok
         /\ sensor_frame_[ChannelOf(wev'.end_effector)] = wev.frame) =>
          wev'.wrench = MatVec(calibration_matrix_[ChannelOf(wev'.end_effector)],
                               SampleVector(wev.raw))
     /\ (/\ wev'.op = "wrenchAtSensorPoint" /\ wev'.ok
         /\ sensor_frame_[ChannelOf(wev'.end_effector)] \notin ingestedFrames) =>
          wev'.wrench = Zero6
    ]_vars

\* the channel is the first one registered with its sensor frame
FirstWithFrame(i) == \A k \in 1..(i - 1) : sensor_frame_[k] # sensor_frame_[i]

\* C10, amended: the round trip holds for every registered channel that is
\* the earliest registered with its sensor frame; every channel returns zero
\* while no sample with its frame has been stored.
C10_RoundTripFirstMatch ==
  [][/\ (/\ wev.op = "forceTorqueCB"
         /\ wev'.op = "wrenchAtSensorPoint" /\ wev'.ok
         /\ sensor_frame_[ChannelOf(wev'.end_effector)] = wev.frame
         /\ FirstWithFrame(ChannelOf(wev'.end_effector))) =>
          wev'.wrench = MatVec(calibration_matrix_[ChannelOf(wev'.end_effector)],
                               SampleVector(wev.raw))
     /\ (/\ wev'.op = "wrenchAtSensorPoint" /\ wev'.ok
         /\ sensor_frame_[ChannelOf(wev'.end_effector)] \notin ingestedFrames) =>
          wev'.wrench = Zero6
    ]_vars

\* a query on the second channel, calibrated by the bidiagonal matrix,
\* returned the calibrated value of a raw sample
C10_Witness ==
  /\ wev.op = "wrenchAtSensorPoint" /\ wev.ok
  /\ ChannelOf(wev.end_effector) = 2
  /\ calibration_matrix_[2] = Matrix(6, 6, "bidiagonal")
  /\ \E raw \in RawWrenches :
       /\ wev.wrench = MatVec(calibration_matrix_[2], SampleVector(raw))
       /\ wev.wrench # SampleVector(raw)

\* the wrench e = <<force, torque>> measured in a sensor frame, expressed at
\* the gripping point: the left sensor sits at the gripping point, the right
\* one is turned half a turn about z and sits one unit along z
AtGrippingPoint(sensor_frame, e) ==
  IF sensor_frame = "left_sensor"
    THEN e
    ELSE <<0 - e[1], 0 - e[2], e[3],
           e[2] - e[4], 0 - e[1] - e[5], e[6]>>

\* C11: for every registered channel, wrenchAtGrippingPoint returns the
\* channel's sensor-to-gripping-point transform applied to the value
\* wrenchAtSensorPoint returns in the same state, publishes that wrench once
\* in the channel's gripping frame, and changes none of the channel sequences.
C11_GrippingPointTransform ==
  [][(wev'.op = "wrenchAtGrippingPoint" /\ Registered(wev'.end_effector)) =>
       LET i == ChannelOf(wev'.end_effector)
           atSensor == measured_wrench_[i].force \o measured_wrench_[i].torque
           expected == AtGrippingPoint(sensor_frame_[i], atSensor)
       IN /\ wev'.ok
          /\ wev'.wrench = expected
          /\ Len(wev'.published) = 1
          /\ wev'.published[1].frame_id = gripping_frame_[i]
          /\ wev'.published[1].wrench.force = SubSeq(expected, 1, 3)
          /\ wev'.published[1].wrench.torque = SubSeq(expected, 4, 6)
          /\ UNCHANGED channelVars
    ]_vars

\* a query at the gripping point of a channel of the right sensor whose
\* measured force moves the torque
C11_Witness ==
  /\ wev.op = "wrenchAtGrippingPoint" /\ wev.ok
  /\ sensor_frame_[ChannelOf(wev.end_effector)] = "right_sensor"
  /\ measured_wrench_[ChannelOf(wev.end_effector)].force[1] # 0
  /\ wev.wrench # measured_wrench_[ChannelOf(wev.end_effector)].force
                    \o measured_wrench_[ChannelOf(wev.end_effector)].torque
  /\ Len(wev.published) = 1

\* C12: wrenchAtSensorPoint and wrenchAtGrippingPoint called with a name that
\* is not registered, a name whose registration just failed included, return
\* false, write no wrench to the output, publish nothing and change none of
\* the channel sequences.
C12_UnknownEndEffector ==
  [][/\ (/\ wev'.op \in {"wrenchAtSensorPoint", "wrenchAtGrippingPoint"}
         /\ ~Registered(wev'.end_effector)) =>
          /\ ~wev'.ok
          /\ wev'.wrench = NoWrench
          /\ wev'.published = NoMessage
          /\ UNCHANGED channelVars
     /\ (/\ wev.op = "initializeWrenchComm" /\ ~wev.ok
         /\ wev.step # "duplicate"
         /\ wev'.op \in {"wrenchAtSensorPoint", "wrenchAtGrippingPoint"}
         /\ wev'.end_effector = wev.end_effector) =>
          /\ ~wev'.ok
          /\ wev'.wrench = NoWrench
          /\ wev'.published = NoMessage
          /\ UNCHANGED channelVars
    ]_vars

\* a query that failed while another end-effector is registered and has a
\* measured wrench
C12_Witness ==
  /\ wev.op \in {"wrenchAtSensorPoint", "wrenchAtGrippingPoint"}
  /\ ~wev.ok /\ ~Registered(wev.end_effector)
  /\ Len(manager_index_) = 1
  /\ measured_wrench_[1] # WrenchZero

\* the first channel registered with the frame, 0 when there is none
EarliestWithFrame(frame_id) ==
  IF \E i \in 1..Len(sensor_frame_) : sensor_frame_[i] = frame_id
    THEN CHOOSE i \in 1..Len(sensor_frame_) :
           sensor_frame_[i] = frame_id /\ FirstWithFrame(i)
    ELSE 0

\* C13: a sample whose frame matches no registered sensor frame changes no
\* channel sequence; a sample whose frame matches changes only the measured
\* wrench of the matched channel: the calibration matrices, the transforms
\* and the measured wrench of every other channel stay as they were.
C13_SampleFrameEffect ==
  [][(wev'.op = "forceTorqueCB") =>
       /\ UNCHANGED <<manager_index_, sensor_frame_, gripping_frame_,
                      calibration_matrix_, sensor_to_gripping_point_, ft_sub_,
                      processed_ft_pub_>>
       /\ Len(measured_wrench_') = Len(measured_wrench_)
       /\ (EarliestWithFrame(wev'.frame) = 0) => UNCHANGED measured_wrench_
       /\ \A i \in 1..Len(measured_wrench_) :
            (measured_wrench_'[i] # measured_wrench_[i]) =>
              (sensor_frame_[i] = wev'.frame /\ i = EarliestWithFrame(wev'.frame))
    ]_vars

\* a sample of a frame nobody registered arrived while the first channel held
\* a measured wrench, and a sample changed the second channel only
C13_Witness ==
  \/ /\ wev.op = "forceTorqueCB" /\ ~wev.ok
     /\ wev.frame = "other_sensor"
     /\ Len(measured_wrench_) = 2
     /\ measured_wrench_[1] # WrenchZero
  \/ /\ wev.op = "forceTorqueCB" /\ wev.ok
     /\ Len(measured_wrench_) = 2
     /\ sensor_frame_[2] = wev.frame /\ sensor_frame_[1] # wev.frame
     /\ measured_wrench_[2] # WrenchZero

\* C20: when several channels are registered with the same sensor frame, a
\* sample of that frame updates the measured wrench of the earliest
\* registered of them only; the measured wrench of a channel registered later
\* with the frame is never changed by a sample and stays zero.
C20_SharedFrameFirstMatch ==
  [][/\ \A i \in 1..Len(measured_wrench_) :
          ~FirstWithFrame(i) => measured_wrench_[i] = WrenchZero
     /\ (wev'.op = "forceTorqueCB") =>
          \A i \in 1..Len(measured_wrench_) :
            /\ ~FirstWithFrame(i) => measured_wrench_'[i] = WrenchZero
            /\ (sensor_frame_[i] = wev'.frame /\ FirstWithFrame(i)) =>
                 measured_wrench_'[i].force \o measured_wrench_'[i].torque =
                   MatVec(calibration_matrix_[i], SampleVector(wev'.raw))
    ]_vars

\* two channels share a sensor frame, a sample of that frame arrived, the
\* first channel holds it and the second still holds zero
C20_Witness ==
  /\ Len(sensor_frame_) = 2
  /\ sensor_frame_[1] = sensor_frame_[2]
  /\ wev.op = "forceTorqueCB" /\ wev.ok /\ wev.frame = sensor_frame_[1]
  /\ measured_wrench_[1] # WrenchZero
  /\ measured_wrench_[2] = WrenchZero

\* updateControl called lastState and returned what it returned: it held
\* (idle or stale dt) or it replaced the output of controlAlgorithm
LastStateCalled(e) ==
  e.op = "updateControl" /\ (~e.algInvoked \/ e.ret # e.algRet)

\* C17, as claimed: the first lastState call with a valid current state after
\* a goal is activated, or after a call with an empty current state, seeds the
\* cache from that current state with the velocities zeroed and returns it.
C17_SeedAfterActivation ==
  [][/\ (/\ ev.op = "goalCB" /\ ev.parseOk
         /\ LastStateCalled(ev') /\ Len(ev'.current.position) # 0) =>
          (ev'.ret = Held(ev'.current) /\ last_state_' = Held(ev'.current))
     /\ (/\ LastStateCalled(ev) /\ Len(ev.current.position) = 0
         /\ LastStateCalled(ev') /\ Len(ev'.current.position) # 0) =>
          (ev'.ret = Held(ev'.current) /\ last_state_' = Held(ev'.current))
    ]_vars

\* C17, amended: a lastState call with a valid current state made while
\* has_state_ is false (after construction, or after resetInternalState ran
\* for a preemption, a completion or a direct call) seeds the cache from that
\* current state with the velocities zeroed, sets has_state_ and returns the
\* seed; every call made while has_state_ is true returns the cache and leaves
\* it alone, whether or not a goal was activated or an empty state was passed
\* in between; a call with an empty current state returns the cache and
\* changes neither the cache nor has_state_.
C17_SeedWhenNoState ==
  [][LastStateCalled(ev') =>
       LET has == has_state_ /\ ~ev'.resetControllerCalled IN
       IF Len(ev'.current.position) = 0
         THEN /\ ev'.ret = last_state_
              /\ last_state_' = last_state_
              /\ has_state_' = has
         ELSE IF ~has
           THEN /\ ev'.ret = Held(ev'.current)
                /\ last_state_' = Held(ev'.current)
                /\ has_state_'
           ELSE /\ ev'.ret = last_state_
                /\ last_state_' = last_state_
                /\ has_state_'
    ]_vars

\* after a goal was accepted, a stale dt made updateControl call lastState
\* with a valid current state, and it returned an older cache
C17_Witness ==
  /\ everAccepted
  /\ LastStateCalled(ev) /\ ev.lifecycleAborted
  /\ Len(ev.current.position) # 0
  /\ ev.ret # Held(ev.current)
  /\ Len(ev.ret.position) # 0
  /\ ev.ret = last_state_

\* C18, as claimed: however a goal that had controlAlgorithm invoked stops
\* being active (preemption, completion reported by the algorithm, stale
\* dt), resetController is invoked and acquired_goal_ is cleared before
\* controlAlgorithm is invoked for a later goal.
C18_ResetBeforeNextGoal ==
  [][(ev'.op = "updateControl" /\ ev'.algInvoked) => ~goalHist.owesReset]_vars

\* C19: every state updateControl returns that is not the output of
\* controlAlgorithm (idle hold, stale dt, replaced non-finite output) has all
\* velocities zero, and the cache never holds a non-zero velocity.
C19_HeldVelocitiesZero ==
  /\ AllZero(last_state_.velocity)
  /\ LastStateCalled(ev) => AllZero(ev.ret.velocity)

\* after a reset, a non-finite output was replaced by a cache seeded from a
\* current state that was moving
C19_Witness ==
  /\ everReset /\ everAccepted
  /\ ev.op = "updateControl" /\ ev.algInvoked /\ ev.ret # ev.algRet
  /\ ~AllZero(ev.current.velocity)
  /\ ev.ret.position = ev.current.position
  /\ Len(ev.ret.velocity) > 0

\* C16, as claimed: however a goal callback whose parseGoal succeeds
\* interleaves with an updateControl in progress, once both have returned and
\* the new goal is still active acquired_goal_ is true; and controlAlgorithm
\* is never invoked for an accepted goal whose parseGoal has not returned.
C16_GoalRace ==
  /\ (inflight.uc.pc = "idle" /\ inflight.cb.pc = "idle" /\ isActive) =>
       acquired_goal_
  /\ ~inflight.algBeforeParse

\* C14, as claimed: a query that ran while a sample for its channel was being
\* stored observed a measured wrench that the channel held whole, before or
\* after the sample, never part of one and part of the other.
C14_NoTornRead ==
  (inflight.q.pc = "idle" /\ inflight.q.arm # 0) =>
    inflight.q.seen \in inflight.q.whole

\* C15, as claimed: when initializeWrenchComm calls for two end-effectors ran
\* concurrently and both returned true, every per-channel sequence has the
\* same length and each name maps to the sensor frame, calibration matrix,
\* transform and gripping frame of its own call.
C15_ConcurrentRegistration ==
  (\A t \in RegThreads : inflight.reg[t].pc = "done" /\ inflight.reg[t].ok) =>
    /\ \A n \in {Len(sensor_frame_), Len(gripping_frame_),
                  Len(calibration_matrix_), Len(sensor_to_gripping_point_),
                  Len(measured_wrench_), Len(ft_sub_), Len(processed_ft_pub_)} :
         n = Len(manager_index_)
    /\ \A t \in RegThreads :
         LET r == inflight.reg[t]
             i == ChannelOf(r.end_effector)
         IN /\ sensor_frame_[i] = r.sensor_frame
            /\ calibration_matrix_[i] = ParamServer(r.calib_matrix_param).M
            /\ sensor_to_gripping_point_[i] =
                 poseMsgToKDL(transformPose(r.gripping_point_frame, r.sensor_frame))
            /\ gripping_frame_[i] = r.gripping_point_frame

====
